---- MODULE Spec2Model ----
(***************************************************************************)
(* litemdb: a safe layer over the LMDB storage engine (src/src/lib.rs).    *)
(*                                                                         *)
(* The model has one database directory, the Environment objects opened    *)
(* on it, the Transaction objects begun from them by a set of threads and  *)
(* the DataViews borrowed from the Transactions.  The wrapper's code is    *)
(* modelled operation by operation; the engine behind the sys::mdb_* calls *)
(* is modelled at its interface (status code returned, effect on the       *)
(* engine's transaction handle and on the committed store).                *)
(***************************************************************************)
EXTENDS Integers, FiniteSets, Sequences, TLC

(***************************************************************************)
(* Bounds of the model.                                                    *)
(***************************************************************************)
\* Transactions successfully begun over one run.
MaxTxns == 3
\* Calls of Environment::open over one run.
MaxEnvs == 2
\* DataViews of one Transaction that are in scope at the same time.
MaxViews == 1

Threads == {"t1", "t2"}
Keys == {"k1"}
Vals == {"v1", "v2"}
TxnIds == 1..MaxTxns
EnvIds == 1..MaxEnvs

\* A key with no value.
Absent == "absent"
\* A key the transaction has not written.
Untouched == "untouched"
EmptyStore == [k \in Keys |-> Absent]
NoWrites == [k \in Keys |-> Untouched]

(***************************************************************************)
(* Engine status codes and flags (lmdb.h, errno.h).                        *)
(***************************************************************************)
MDB_SUCCESS == 0
MDB_NOTFOUND == -30798
MDB_KEYEXIST == -30799
MDB_MAP_FULL == -30792
MDB_NOOVERWRITE == 16
EACCES == 13
ENOMEM == 12
EINVAL == 22
ENOENT == 2
EIO == 5

(***************************************************************************)
(* State.                                                                  *)
(***************************************************************************)
VARIABLES
    disk,        \* the committed store of the database directory
    envs,        \* the engine instance handles / Environment objects, by id
    txns,        \* the Transaction objects and their engine handles, by id
    ACTIVE_TXN,  \* the thread-local marker, per thread
    proc,        \* "running", or "crashed" after undefined behaviour
    ret          \* the last call of the API: what was called, what it returned

vars == <<disk, envs, txns, ACTIVE_TXN, proc, ret>>

\* struct Environment { env, dbi }, with the history of its engine handle:
\*   st       "none" | "live" (open returned Ok) | "dropped" (Drop for
\*            Environment has run)
\*   closes   calls of mdb_env_close on the handle
\*   userRef  the application holds an Arc<Environment>
NoEnv == [st |-> "none", closes |-> 0, userRef |-> FALSE]

\* struct Transaction { env, is_discarded, txn }, with the state of its
\* engine transaction handle:
\*   st     "none" | "alive" | "dropped" (Drop for Transaction has run)
\*   th     the thread that began it (Transaction is neither Send nor Sync)
\*   env    the Environment its Arc refers to
\*   ro     begun with Flags::READ_ONLY
\*   rdonly the engine handle was begun with MDB_RDONLY
\*   open   the engine handle is open (not yet committed or aborted)
\*   terms  terminating calls (mdb_txn_commit, mdb_txn_abort) on the handle
\*   snap   the committed store when the engine began the transaction
\*   work   the store as the transaction sees it
\*   w      per key, the data of the last put that returned Ok, Absent after
\*          a del that returned Ok(true), Untouched otherwise
\*   views  DataViews borrowed from it that are in scope
NoTxn ==
    [st |-> "none", th |-> "none", env |-> 0, ro |-> FALSE,
     rdonly |-> FALSE, is_discarded |-> FALSE, open |-> FALSE, terms |-> 0,
     snap |-> EmptyStore, work |-> EmptyStore, w |-> NoWrites,
     views |-> 0]

NoCalls == << >>

\* What a call returns: Ok(..), None, Some(v), true, false, Err(r) or a panic.
Res(kind, v, r) == [kind |-> kind, v |-> v, r |-> r]
Ok == Res("Ok", Absent, 0)
Err(r) == Res("Err", Absent, r)
Panic == Res("panic", Absent, 0)

\* The record of a call: operation op by thread t on object x (a Transaction,
\* or an Environment for open and drop_env) with key k, its result, and the
\* engine calls it made, in order.  For abort, commit and drop, `wrote`
\* tells whether a put or del of the Transaction had succeeded and `ro`
\* whether the Transaction was read-only.
Returned(op, t, x, k, res, calls) ==
    [op |-> op, t |-> t, x |-> x, k |-> k, kind |-> res.kind, v |-> res.v,
     r |-> res.r, calls |-> calls, wrote |-> FALSE, ro |-> FALSE]

\* A fresh directory, no Environment, no Transaction, and the marker of
\* every thread `ths` of the run unset.
InitWith(ths) ==
    /\ disk = EmptyStore
    /\ envs = [e \in EnvIds |-> NoEnv]
    /\ txns = [x \in TxnIds |-> NoTxn]
    /\ ACTIVE_TXN = [t \in ths |-> FALSE]
    /\ proc = "running"
    /\ ret = Returned("init", "none", 0, "none", Res("none", Absent, 0), NoCalls)

\* A run of one thread.
Init == InitWith({"t1"})

\* A run of all the threads.
InitThreads == InitWith(Threads)

\* The threads of the run.
RunThreads == DOMAIN ACTIVE_TXN

(***************************************************************************)
(* The engine, at its interface.  Every call returns a status; a           *)
(* transaction handle is terminated by mdb_txn_commit (whatever it         *)
(* returns) and by mdb_txn_abort.                                          *)
(***************************************************************************)
\* mdb_txn_begin: the statuses it may return.
mdb_txn_begin == {MDB_SUCCESS, ENOMEM}

\* A write transaction holds the engine's writer lock from begin to end.
WriterFree == \A x \in TxnIds : ~(txns[x].open /\ ~txns[x].rdonly)

\* mdb_get: the status and, on success, the data.
mdb_get(tx, k) ==
    IF tx.work[k] = Absent
    THEN [r |-> MDB_NOTFOUND, data |-> Absent]
    ELSE [r |-> MDB_SUCCESS, data |-> tx.work[k]]

\* mdb_put: the possible outcomes, each a status and the store the
\* transaction then sees.  A read-only transaction rejects it; with
\* MDB_NOOVERWRITE an existing key is kept; the map may be full.
mdb_put(tx, k, d, flags) ==
    IF tx.rdonly
    THEN {[r |-> EACCES, work |-> tx.work]}
    ELSE IF flags = MDB_NOOVERWRITE /\ tx.work[k] # Absent
    THEN {[r |-> MDB_KEYEXIST, work |-> tx.work]}
    ELSE {[r |-> MDB_SUCCESS, work |-> [tx.work EXCEPT ![k] = d]],
          [r |-> MDB_MAP_FULL, work |-> tx.work]}

\* mdb_del: a read-only transaction rejects it.
mdb_del(tx, k) ==
    IF tx.rdonly
    THEN [r |-> EACCES, work |-> tx.work]
    ELSE IF tx.work[k] = Absent
    THEN [r |-> MDB_NOTFOUND, work |-> tx.work]
    ELSE [r |-> MDB_SUCCESS, work |-> [tx.work EXCEPT ![k] = Absent]]

\* mdb_txn_commit: the possible outcomes, each a status and the committed
\* store afterwards.  On failure nothing is committed.
mdb_txn_commit(tx, store) ==
    {[r |-> MDB_SUCCESS, store |-> IF tx.rdonly THEN store ELSE tx.work],
     [r |-> EIO, store |-> store]}

\* mdb_txn_abort: it returns nothing and leaves the committed store alone.
mdb_txn_abort(tx, store) == {[r |-> MDB_SUCCESS, store |-> store]}

\* The handle's side of mdb_txn_commit and mdb_txn_abort: the handle is
\* terminated, whatever the status.
EndHandle(tx) == [tx EXCEPT !.open = FALSE, !.terms = @ + 1]

(***************************************************************************)
(* Environment.                                                            *)
(***************************************************************************)
Running == proc = "running"

\* The ways Environment::open returns: Ok, or at the step that fails.
\* "path" is the panic of CString::new on a path with a null byte.
OpenSteps ==
    <<"mdb_env_create", "mdb_env_set_mapsize", "path", "mdb_env_open",
      "mdb_txn_begin", "mdb_dbi_open", "mdb_txn_commit">>
OpenFailures == {OpenSteps[i] : i \in DOMAIN OpenSteps}
OpenOutcomes == OpenFailures \cup {"ok"}

StepIndex(f) == CHOOSE i \in DOMAIN OpenSteps : OpenSteps[i] = f

\* The failing paths of open that call mdb_env_close before returning.
ClosesOnFailure(f) ==
    f \in {"mdb_env_open", "mdb_txn_begin", "mdb_dbi_open", "mdb_txn_commit"}

\* The status the failing step returned.
OpenStatus(f) ==
    CASE f = "mdb_env_create" -> ENOMEM
      [] f = "mdb_env_set_mapsize" -> EINVAL
      [] f = "mdb_env_open" -> ENOENT
      [] f = "mdb_txn_begin" -> ENOMEM
      [] f = "mdb_dbi_open" -> EINVAL
      [] f = "mdb_txn_commit" -> EIO
      [] OTHER -> MDB_SUCCESS

\* The engine calls open makes when it returns by outcome f.
OpenCalls(f) ==
    LET last == IF f = "ok" THEN Len(OpenSteps) ELSE StepIndex(f)
        made == SelectSeq(SubSeq(OpenSteps, 1, last), LAMBDA c : c # "path")
    IN  IF ClosesOnFailure(f) THEN Append(made, "mdb_env_close") ELSE made

\* The thread holds an open engine transaction of a Transaction.
ThreadTxnOpen(t) == \E x \in TxnIds : txns[x].th = t /\ txns[x].open

\* Environment { env, dbi }, as open returns it in Ok, held by the
\* application in an Arc.
OpenedEnv == [st |-> "live", closes |-> 0, userRef |-> TRUE]

\* What open returns by outcome f.
OpenResult(f) ==
    IF f = "ok" THEN Ok ELSE IF f = "path" THEN Panic ELSE Err(OpenStatus(f))

NextEnv == 1 + Cardinality({e \in EnvIds : envs[e].st # "none"})

\* Environment::open, called by thread t, returning by outcome f.  An
\* Environment exists only when open returns Ok; the engine calls of a
\* failed open are those of ret.calls.
Open(t, f) ==
    /\ Running
    /\ NextEnv <= MaxEnvs
    /\ envs' = IF f = "ok" THEN [envs EXCEPT ![NextEnv] = OpenedEnv] ELSE envs
    /\ ret' = Returned("open", t, IF f = "ok" THEN NextEnv ELSE 0, "none",
                       OpenResult(f), OpenCalls(f))
    /\ UNCHANGED <<disk, txns, ACTIVE_TXN, proc>>

\* A count in which a Transaction holds no strong reference.
ApplicationCountOnly(e) == IF envs[e].userRef THEN 1 ELSE 0

\* The strong count of the Arc<Environment>: the application's reference
\* and one per live Transaction.
StrongCount(e) ==
    (IF envs[e].userRef THEN 1 ELSE 0)
    + Cardinality({x \in TxnIds : txns[x].st = "alive" /\ txns[x].env = e})

\* Drop for Environment.
EnvDropped(env) == [env EXCEPT !.st = "dropped", !.closes = @ + 1]

\* A strong reference to e is dropped, leaving `left` of them: the last one
\* drops the Environment.
ReleaseArc(es, e, left) ==
    IF left = 0 THEN [es EXCEPT ![e] = EnvDropped(es[e])] ELSE es

ReleaseCalls(left) == IF left = 0 THEN <<"mdb_env_close">> ELSE NoCalls

\* The application drops its Arc<Environment>.
DropEnv(e) ==
    /\ Running
    /\ envs[e].st = "live"
    /\ envs[e].userRef
    /\ LET held == [envs EXCEPT ![e].userRef = FALSE]
           left == StrongCount(e) - 1
       IN  /\ envs' = ReleaseArc(held, e, left)
           /\ ret' = Returned("drop_env", "none", e, "none", Ok, ReleaseCalls(left))
    /\ UNCHANGED <<disk, txns, ACTIVE_TXN, proc>>

(***************************************************************************)
(* Transaction.                                                            *)
(***************************************************************************)
\* A begin that does not check the marker.
NoActiveCheck(t) == FALSE

\* A marker shared by all the threads.
GlobalActiveCheck(t) == \E u \in RunThreads : ACTIVE_TXN[u]

\* The assertion of begin fails: the thread's marker was already set.
ActiveCheckFails(t) == ACTIVE_TXN[t]

\* What begin returns for status r of mdb_txn_begin.
BeginResult(r) == IF r # 0 THEN Err(r) ELSE Ok

\* A begin that passes no flags to mdb_txn_begin.
BeginWithoutFlags(ro) == FALSE

\* The flags begin passes to mdb_txn_begin, flags.bits(), as the mode of
\* the engine handle: Flags::READ_ONLY is MDB_RDONLY.
BeginFlags(ro) == ro

\* Transaction { env, txn, is_discarded: false } over a handle just begun.
NewTxn(t, e, ro) ==
    [NoTxn EXCEPT !.st = "alive", !.th = t, !.env = e, !.ro = ro,
                  !.rdonly = BeginFlags(ro),
                  !.open = TRUE, !.snap = disk, !.work = disk]

NextTxn == 1 + Cardinality({x \in TxnIds : txns[x].st # "none"})

\* Environment::begin_transaction / Transaction::begin by thread t on
\* Environment e, read-only or not.  A write transaction waits in the
\* engine for the writer lock.
Begin(t, e, ro) ==
    /\ Running
    /\ envs[e].st = "live"
    /\ envs[e].userRef
    /\ NextTxn <= MaxTxns
    /\ IF ActiveCheckFails(t)
       THEN /\ ret' = Returned("begin", t, 0, "none", Panic, NoCalls)
            /\ UNCHANGED <<disk, envs, txns, ACTIVE_TXN, proc>>
       ELSE /\ BeginFlags(ro) \/ WriterFree
            /\ \E r \in mdb_txn_begin :
                 /\ ACTIVE_TXN' = [ACTIVE_TXN EXCEPT ![t] = TRUE]
                 /\ txns' = IF r = MDB_SUCCESS
                            THEN [txns EXCEPT ![NextTxn] = NewTxn(t, e, ro)]
                            ELSE txns
                 /\ ret' = Returned("begin", t,
                                    IF r = MDB_SUCCESS THEN NextTxn ELSE 0,
                                    "none", BeginResult(r), <<"mdb_txn_begin">>)
                 /\ UNCHANGED <<disk, envs, proc>>

Alive(x) == txns[x].st = "alive"

\* A DataView that borrows nothing.
BorrowIgnored(x) == TRUE

\* The borrow a DataView holds: a method taking `&mut self` or `self`
\* is callable only while no DataView of the Transaction is in scope.
Unborrowed(x) == txns[x].views = 0

\* What get returns for status r and data of mdb_get.
GetResult(r, data) ==
    IF r = MDB_NOTFOUND THEN Res("None", Absent, 0)
    ELSE IF r # 0 THEN Err(r)
    ELSE Res("Some", data, 0)

\* Transaction::get(&self, key); the DataView is kept in scope or not.
Get(x, k, keep) ==
    /\ Running
    /\ Alive(x)
    /\ LET g == mdb_get(txns[x], k)
           res == GetResult(g.r, g.data)
           held == keep /\ res.kind = "Some"
       IN  /\ held => txns[x].views < MaxViews
           /\ txns' = IF held THEN [txns EXCEPT ![x].views = @ + 1] ELSE txns
           /\ ret' = Returned("get", txns[x].th, x, k, res, <<"mdb_get">>)
    /\ UNCHANGED <<disk, envs, ACTIVE_TXN, proc>>

\* A DataView goes out of scope.
DropView(x) ==
    /\ Running
    /\ Alive(x)
    /\ txns[x].views > 0
    /\ txns' = [txns EXCEPT ![x].views = @ - 1]
    /\ ret' = Returned("drop_view", txns[x].th, x, "none", Ok, NoCalls)
    /\ UNCHANGED <<disk, envs, ACTIVE_TXN, proc>>

\* A put that does not report MDB_NOTFOUND.
PutIgnoresNotFound(r) == IF r # 0 /\ r # MDB_NOTFOUND THEN Err(r) ELSE Ok

\* A put that passes MDB_NOOVERWRITE.
PutNoOverwrite == MDB_NOOVERWRITE

\* The flags put passes to mdb_put.
PutFlags == 0

\* What put returns for status r of mdb_put.
PutResult(r) == IF r # 0 THEN Err(r) ELSE Ok

\* Transaction::put(&mut self, key, data).
Put(x, k, d) ==
    /\ Running
    /\ Alive(x)
    /\ Unborrowed(x)
    /\ \E o \in mdb_put(txns[x], k, d, PutFlags) :
         LET res == PutResult(o.r)
         IN  /\ txns' = [txns EXCEPT
                    ![x].work = o.work,
                    ![x].w = IF res.kind = "Ok" THEN [@ EXCEPT ![k] = d] ELSE @]
             /\ ret' = Returned("put", txns[x].th, x, k, res, <<"mdb_put">>)
    /\ UNCHANGED <<disk, envs, ACTIVE_TXN, proc>>

\* A del that reports a missing key as an error.
DelNotFoundIsError(r) == IF r # 0 THEN Err(r) ELSE Res("true", Absent, 0)

\* A del that reports a missing key as deleted.
DelNotFoundIsTrue(r) ==
    IF r # 0 /\ r # MDB_NOTFOUND THEN Err(r) ELSE Res("true", Absent, 0)

\* What del returns for status r of mdb_del.
DelResult(r) ==
    IF r = MDB_NOTFOUND THEN Res("false", Absent, 0)
    ELSE IF r # 0 THEN Err(r)
    ELSE Res("true", Absent, 0)

\* Transaction::del(&mut self, key).
Del(x, k) ==
    /\ Running
    /\ Alive(x)
    /\ Unborrowed(x)
    /\ LET o == mdb_del(txns[x], k)
           res == DelResult(o.r)
       IN  /\ txns' = [txns EXCEPT
                  ![x].work = o.work,
                  ![x].w = IF res.kind = "true" THEN [@ EXCEPT ![k] = Absent]
                           ELSE @]
           /\ ret' = Returned("del", txns[x].th, x, k, res, <<"mdb_del">>)
    /\ UNCHANGED <<disk, envs, ACTIVE_TXN, proc>>

\* The assertion of Drop for Transaction fails: the marker was not set.
DropPanics(t) == ~ACTIVE_TXN[t]

\* Drop for Transaction aborts unless the Transaction was marked discarded.
DropAborts(tx) == ~tx.is_discarded

\* The engine call of Drop for Transaction.
DropEngineCall(tx, store) == mdb_txn_abort(tx, store)

\* A drop that clears the marker only where it does not abort.
MarkerClearedIfDiscarded(tx) == ~tx.is_discarded

\* The marker after Drop for Transaction: cell.replace(false), before and
\* whatever the is_discarded test.
MarkerAfterDrop(tx) == FALSE

\* A put or del of the Transaction has succeeded.
Wrote(tx) == \E k \in Keys : tx.w[k] # Untouched

\* A Transaction that has been dropped: the object is gone; what is kept
\* is its engine handle's state (and whose it is, while it is open).
Dropped(tx) ==
    IF tx.open
    THEN [tx EXCEPT !.st = "dropped", !.views = 0, !.snap = EmptyStore,
                    !.work = EmptyStore, !.w = NoWrites,
                    !.is_discarded = FALSE]
    ELSE [NoTxn EXCEPT !.st = "dropped", !.terms = tx.terms]

\* The end of abort, commit and of the Transaction's scope: the
\* Transaction, in state tx with the committed store `store`, is dropped.
\* Drop for Transaction clears the marker and aborts unless is_discarded;
\* then the Arc<Environment> field is dropped.  An abort of a handle the
\* engine has already terminated is undefined behaviour: the process goes
\* on, or it crashes.
Finish(op, x, tx, res, calls, store) ==
    LET t == tx.th
        e == tx.env
        panics == DropPanics(t)
        aborts == ~panics /\ DropAborts(tx)
        ub == aborts /\ ~tx.open
        left == StrongCount(e) - 1
    IN  \E o \in (IF aborts THEN DropEngineCall(tx, store)
                  ELSE {[r |-> MDB_SUCCESS, store |-> store]}),
           p \in (IF ub THEN {"running", "crashed"} ELSE {"running"}) :
          /\ proc' = p
          /\ disk' = o.store
          /\ txns' = [txns EXCEPT
                 ![x] = Dropped(IF aborts THEN EndHandle(tx) ELSE tx)]
          /\ ACTIVE_TXN' = [ACTIVE_TXN EXCEPT ![t] = MarkerAfterDrop(tx)]
          /\ envs' = IF p = "crashed" THEN envs ELSE ReleaseArc(envs, e, left)
          /\ ret' = [Returned(op, t, x, "none",
                         IF panics THEN Panic ELSE res,
                         calls
                         \o (IF aborts THEN <<"mdb_txn_abort">> ELSE NoCalls)
                         \o (IF p = "crashed" THEN NoCalls
                             ELSE ReleaseCalls(left)))
                     EXCEPT !.wrote = Wrote(tx), !.ro = tx.ro]

\* An abort that commits.
AbortCommits(tx, store) == mdb_txn_commit(tx, store)

\* The engine call of abort.
AbortEngineCall(tx, store) == mdb_txn_abort(tx, store)

\* Transaction::abort(mut self).
Abort(x) ==
    /\ Running
    /\ Alive(x)
    /\ Unborrowed(x)
    /\ \E o \in AbortEngineCall(txns[x], disk) :
         Finish("abort", x,
                [EndHandle(txns[x]) EXCEPT !.is_discarded = TRUE],
                Ok, <<"mdb_txn_abort">>, o.store)

\* A commit that aborts.
CommitAborts(tx, store) == mdb_txn_abort(tx, store)

\* The engine call of commit.
CommitEngineCall(tx, store) == mdb_txn_commit(tx, store)

\* commit sets is_discarded only when mdb_txn_commit returned 0.
CommitDiscards(r) == r = 0

\* What commit returns for status r of mdb_txn_commit.
CommitResult(r) == IF r # 0 THEN Err(r) ELSE Ok

\* Transaction::commit(mut self).
Commit(x) ==
    /\ Running
    /\ Alive(x)
    /\ Unborrowed(x)
    /\ \E o \in CommitEngineCall(txns[x], disk) :
         Finish("commit", x,
                [EndHandle(txns[x]) EXCEPT !.is_discarded = CommitDiscards(o.r)],
                CommitResult(o.r), <<"mdb_txn_commit">>, o.store)

\* The Transaction goes out of scope without commit or abort.
Drop(x) ==
    /\ Running
    /\ Alive(x)
    /\ Unborrowed(x)
    /\ Finish("drop", x, txns[x], Ok, NoCalls, disk)

(***************************************************************************)
(* The specification.                                                      *)
(***************************************************************************)
Next ==
    \/ \E t \in RunThreads, f \in OpenOutcomes : Open(t, f)
    \/ \E e \in EnvIds : DropEnv(e)
    \/ \E t \in RunThreads, e \in EnvIds, ro \in BOOLEAN : Begin(t, e, ro)
    \/ \E x \in TxnIds, k \in Keys, keep \in BOOLEAN : Get(x, k, keep)
    \/ \E x \in TxnIds : DropView(x)
    \/ \E x \in TxnIds, k \in Keys, d \in Vals : Put(x, k, d)
    \/ \E x \in TxnIds, k \in Keys : Del(x, k)
    \/ \E x \in TxnIds : Abort(x)
    \/ \E x \in TxnIds : Commit(x)
    \/ \E x \in TxnIds : Drop(x)

Spec == Init /\ [][Next]_vars

SpecThreads == InitThreads /\ [][Next]_vars

(***************************************************************************)
(* The translation of engine statuses, on its own: an engine call of get,  *)
(* put, del, commit or begin has returned any status, and the wrapper      *)
(* turns it into what the call returns.                                    *)
(***************************************************************************)
StatusOps == {"get", "put", "del", "commit", "begin"}

\* The statuses an engine call may return: 0, the engine's own error codes
\* and the errno values.
Statuses == {MDB_SUCCESS} \cup (MDB_KEYEXIST..MDB_MAP_FULL) \cup (1..EINVAL)

\* The engine call of each operation.
EngineCallOf(op) ==
    CASE op = "get" -> "mdb_get"
      [] op = "put" -> "mdb_put"
      [] op = "del" -> "mdb_del"
      [] op = "commit" -> "mdb_txn_commit"
      [] op = "begin" -> "mdb_txn_begin"

\* The engine call of op has returned status r (and data, for mdb_get).
Pending(op, r, data) ==
    Returned(op, "t1", 0, "none", Res("status", data, r), NoCalls)

InitStatus ==
    /\ disk = EmptyStore
    /\ envs = [e \in EnvIds |-> NoEnv]
    /\ txns = [x \in TxnIds |-> NoTxn]
    /\ ACTIVE_TXN = [t \in {"t1"} |-> FALSE]
    /\ proc = "running"
    /\ \E op \in StatusOps, r \in Statuses, data \in Vals :
         ret = Pending(op, r, data)

\* What op returns for status r of its engine call.
Translation(op, r, data) ==
    CASE op = "get" -> GetResult(r, data)
      [] op = "put" -> PutResult(r)
      [] op = "del" -> DelResult(r)
      [] op = "commit" -> CommitResult(r)
      [] op = "begin" -> BeginResult(r)

\* The operation returns: the status is translated, with no further engine
\* call.
Translate ==
    /\ ret.kind = "status"
    /\ ret' = Returned(ret.op, ret.t, ret.x, ret.k,
                       Translation(ret.op, ret.r, ret.v),
                       <<EngineCallOf(ret.op)>>)
    /\ UNCHANGED <<disk, envs, txns, ACTIVE_TXN, proc>>

NextStatus == Translate

SpecStatus == InitStatus /\ [][NextStatus]_vars

(***************************************************************************)
(* Properties.                                                             *)
(***************************************************************************)
LiveTxnsOf(t) == {x \in TxnIds : txns[x].st = "alive" /\ txns[x].th = t}

\* The step is a call of op that returned.
Called(op) == ret' # ret /\ ret'.op = op

\* C1: a thread has at most one live Transaction, and a begin on a thread
\* that has a live Transaction panics, makes no engine call and creates no
\* Transaction.
C1_OneTransactionPerThread ==
    /\ [](\A t \in RunThreads : Cardinality(LiveTxnsOf(t)) <= 1)
    /\ [][\A t \in RunThreads :
            (LiveTxnsOf(t) # {} /\ Called("begin") /\ ret'.t = t)
            => /\ ret'.kind = "panic"
               /\ ret'.calls = NoCalls
               /\ txns' = txns]_vars

\* A begin has panicked on a thread whose Transaction is live.
C1_Witness ==
    /\ ret.op = "begin"
    /\ ret.kind = "panic"
    /\ LiveTxnsOf(ret.t) # {}

\* C2: while a DataView of a Transaction is in scope the Transaction is
\* alive with its engine handle open, and no put, del, commit, abort or
\* drop is executed on it.
C2_ViewExcludesMutation ==
    /\ [](\A x \in TxnIds :
            txns[x].views > 0 => txns[x].st = "alive" /\ txns[x].open)
    /\ [][\A x \in TxnIds :
            txns[x].views > 0
            => /\ txns'[x].st = "alive"
               /\ txns'[x].open
               /\ txns'[x].work = txns[x].work
               /\ ~(ret' # ret /\ ret'.x = x
                    /\ ret'.op \in {"put", "del", "commit", "abort", "drop"})]_vars

\* A DataView of a write Transaction is in scope, and the Transaction has
\* written before.
C2_Witness ==
    \E x \in TxnIds : txns[x].views > 0 /\ ~txns[x].ro /\ Wrote(txns[x])

\* C3: the engine handle of every Transaction that is gone has received
\* exactly one terminating call (mdb_txn_commit or mdb_txn_abort).
C3_HandleReleasedOnce ==
    \A x \in TxnIds : txns[x].st = "dropped" => txns[x].terms = 1

\* The step drops Transaction x at the end of a call of one of ops.
Ends(x, ops) ==
    txns[x].st = "alive" /\ txns'[x].st = "dropped" /\ ret'.op \in ops

\* The step begins Transaction x.
Begins(x) == txns[x].st = "none" /\ txns'[x].st = "alive"

\* A Transaction begins on the committed store.
BeginsOnCommitted ==
    \A x \in TxnIds :
        Begins(x) => txns'[x].snap = disk /\ txns'[x].work = disk

\* What the last get has seen: the data, Absent for None.
Seen ==
    IF ret.kind = "Some" THEN ret.v
    ELSE IF ret.kind = "None" THEN Absent ELSE "error"

\* A get of a key the Transaction has not written sees the committed store
\* the Transaction began on.
ReadsCommitted ==
    (ret.op = "get" /\ txns[ret.x].w[ret.k] = Untouched)
    => Seen = txns[ret.x].snap[ret.k]

\* C4: an abort, or a drop without commit or abort, leaves the committed
\* store unchanged, and as it was when the Transaction began if it had
\* written; a Transaction begun afterwards begins on that store and its get
\* sees it.
C4_AbortIsolation ==
    /\ []ReadsCommitted
    /\ [][/\ \A x \in TxnIds :
               Ends(x, {"abort", "drop"})
               => /\ disk' = disk
                  /\ Wrote(txns[x]) => disk' = txns[x].snap
          /\ BeginsOnCommitted]_vars

\* A Transaction that had written has been aborted or dropped, and the key
\* is still absent.
C4_Witness ==
    /\ ret.op \in {"abort", "drop"}
    /\ ret.wrote
    /\ disk = EmptyStore

\* C5: a commit that returns Ok leaves every key the Transaction wrote with
\* the data of its last write and the other keys as they were; nothing else
\* changes the committed store, not even dropping and reopening the
\* Environment; a Transaction begun afterwards, on any Environment, begins
\* on that store and its get sees it.
C5_CommitDurability ==
    /\ []ReadsCommitted
    /\ [][/\ \A x \in TxnIds :
               (Ends(x, {"commit"}) /\ ret'.kind = "Ok")
               => \A k \in Keys :
                      disk'[k] = IF txns[x].w[k] # Untouched
                                 THEN txns[x].w[k] ELSE disk[k]
          /\ disk' # disk => (ret'.op = "commit" /\ ret'.kind = "Ok")
          /\ BeginsOnCommitted]_vars

\* A read-only Transaction of a second Environment, opened after the first
\* was dropped, has read data it did not write: data a commit left.
C5_Witness ==
    /\ ret.op = "get"
    /\ ret.kind = "Some"
    /\ txns[ret.x].ro
    /\ txns[ret.x].env = 2
    /\ envs[1].st = "dropped"

\* C6: in a write Transaction, get of a key returns Some of the data of the
\* last put of that key that returned Ok, and put never fails with
\* MDB_KEYEXIST.
C6_RoundTrip ==
    /\ (ret.op = "get" /\ ~txns[ret.x].ro /\ txns[ret.x].w[ret.k] \in Vals)
       => (ret.kind = "Some" /\ ret.v = txns[ret.x].w[ret.k])
    /\ (ret.op = "put" /\ ret.kind = "Err") => ret.r # MDB_KEYEXIST

\* A get has returned the data put over a different committed value.
C6_Witness ==
    /\ ret.op = "get"
    /\ ret.kind = "Some"
    /\ txns[ret.x].w[ret.k] = ret.v
    /\ txns[ret.x].snap[ret.k] \in Vals
    /\ txns[ret.x].snap[ret.k] # ret.v

\* The last call was a get or del of a key that is absent from the
\* committed store the Transaction began on and that it has not written.
OnAbsentKey ==
    /\ ret.op \in {"get", "del"}
    /\ txns[ret.x].snap[ret.k] = Absent
    /\ txns[ret.x].w[ret.k] = Untouched

\* C7 as claimed: for such a key get returns Ok(None) and del returns
\* Ok(false), in any Transaction.
C7_AbsenceAnyTransaction ==
    OnAbsentKey
    => /\ ret.op = "get" => ret.kind = "None"
       /\ ret.op = "del" => ret.kind = "false"

\* The step is a call of op on Transaction x with key k.
CalledOn(op, x, k) == Called(op) /\ ret'.x = x /\ ret'.k = k

\* C7: for a key absent from the committed store the Transaction began on
\* and not written by it, get returns Ok(None), del returns Ok(false) in a
\* write Transaction and Err(EACCES) in a read-only one, and neither changes
\* the store.
C7_Absence ==
    [][\A x \in TxnIds, k \in Keys :
         (/\ Alive(x)
          /\ txns[x].snap[k] = Absent
          /\ txns[x].w[k] = Untouched
          /\ CalledOn("get", x, k) \/ CalledOn("del", x, k))
         => /\ disk' = disk
            /\ txns'[x].work = txns[x].work
            /\ ret'.op = "get" => ret'.kind = "None"
            /\ ret'.op = "del"
               => IF txns[x].ro
                  THEN ret'.kind = "Err" /\ ret'.r = EACCES
                  ELSE ret'.kind = "false"]_vars

\* After two earlier Transactions, a del in a third one, of a key absent
\* from the committed store and not written by it, has returned Ok(false).
C7_Witness ==
    /\ OnAbsentKey
    /\ ret.op = "del"
    /\ ret.kind = "false"
    /\ ret.x = 3

\* The commit of a delete removes the key from the committed store.
DeleteCommitted ==
    \A x \in TxnIds, k \in Keys :
        (Ends(x, {"commit"}) /\ ret'.kind = "Ok" /\ txns[x].w[k] = Absent)
        => disk'[k] = Absent

\* C8 as claimed: in any Transaction, del of a present key returns Ok(true)
\* and removes it, and del of a key that is not present returns Ok(false).
C8_DeleteAnyTransaction ==
    [][/\ \A x \in TxnIds, k \in Keys :
            (Alive(x) /\ CalledOn("del", x, k))
            => IF txns[x].work[k] # Absent
               THEN ret'.kind = "true" /\ txns'[x].work[k] = Absent
               ELSE ret'.kind = "false" /\ txns'[x].work[k] = Absent
       /\ DeleteCommitted
       /\ BeginsOnCommitted]_vars

\* C8: in a write Transaction, del of a present key returns Ok(true) and
\* removes it, and del of a key that is not present returns Ok(false); a
\* committed delete leaves the key absent for the Transactions begun
\* afterwards; in a read-only Transaction del returns Err(EACCES) and
\* removes nothing.
C8_Delete ==
    [][/\ \A x \in TxnIds, k \in Keys :
            (Alive(x) /\ CalledOn("del", x, k))
            => IF txns[x].ro
               THEN /\ ret'.kind = "Err"
                    /\ ret'.r = EACCES
                    /\ txns'[x].work = txns[x].work
               ELSE IF txns[x].work[k] # Absent
               THEN ret'.kind = "true" /\ txns'[x].work[k] = Absent
               ELSE ret'.kind = "false" /\ txns'[x].work[k] = Absent
       /\ DeleteCommitted
       /\ BeginsOnCommitted]_vars

\* A second del of a key the Transaction has deleted has returned Ok(false).
C8_Witness ==
    /\ ret.op = "del"
    /\ ret.kind = "false"
    /\ txns[ret.x].w[ret.k] = Absent

\* How many of the engine calls of the last call of the API were to c.
CallsTo(c) == Cardinality({i \in DOMAIN ret.calls : ret.calls[i] = c})

\* C9: when open returns an Error after mdb_env_create has produced the
\* instance handle, it has called mdb_env_close exactly once, as its last
\* engine call.
C9_OpenClosesOnError ==
    (ret.op = "open" /\ ret.kind = "Err" /\ ret.calls # <<"mdb_env_create">>)
    => /\ CallsTo("mdb_env_close") = 1
       /\ ret.calls[Len(ret.calls)] = "mdb_env_close"

\* C10: the engine instance of an Environment is closed at most once, it
\* is closed exactly when the Environment has been dropped, every live
\* Transaction's Environment is live, and no engine transaction begun on a
\* closed instance is open.
C10_ClosedAfterTransactions ==
    /\ \A e \in EnvIds :
         /\ envs[e].closes <= 1
         /\ envs[e].st = "dropped" <=> envs[e].closes = 1
    /\ \A x \in TxnIds :
         /\ txns[x].st = "alive" => envs[txns[x].env].st = "live"
         /\ txns[x].open => envs[txns[x].env].closes = 0

\* The end of a Transaction has dropped the last reference to its
\* Environment: the instance was closed after the engine transaction ended.
C10_Witness ==
    /\ ret.op \in {"commit", "abort", "drop"}
    /\ Len(ret.calls) >= 2
    /\ ret.calls[Len(ret.calls)] = "mdb_env_close"
    /\ \E e \in EnvIds : envs[e].st = "dropped" /\ envs[e].closes = 1

\* The calls that end a Transaction.
Finalizers == {"commit", "abort", "drop"}

\* C11: every end of a Transaction (commit returning Ok or an Error, abort,
\* drop) finds the marker of its thread set and clears it without a panic;
\* the marker is cleared by nothing else; and a begin that follows on the
\* same thread does not panic.
C11_MarkerClearedOnce ==
    /\ [][/\ \A x \in TxnIds :
               Ends(x, Finalizers)
               => /\ ACTIVE_TXN[txns[x].th]
                  /\ ~ACTIVE_TXN'[txns[x].th]
                  /\ ret'.kind # "panic"
          /\ \A t \in RunThreads :
               (ACTIVE_TXN[t] /\ ~ACTIVE_TXN'[t])
               => \E x \in TxnIds : Ends(x, Finalizers) /\ txns[x].th = t
          /\ (ret.op \in Finalizers /\ Called("begin") /\ ret'.t = ret.t)
             => ret'.kind # "panic"]_vars
    /\ [](ret.op \in Finalizers => ~ACTIVE_TXN[ret.t])

\* A begin has returned Ok right after a commit on the same thread returned
\* an Error.
C11_Witness ==
    /\ ret.op = "begin"
    /\ ret.kind = "Ok"
    /\ ACTIVE_TXN[ret.t]
    /\ \E x \in TxnIds :
         /\ x + 1 = ret.x
         /\ txns[x].st = "dropped"
         /\ txns[x].terms = 2

\* The kind of result with which op reports success.
SuccessKind(op) ==
    CASE op = "get" -> "Some"
      [] op = "del" -> "true"
      [] OTHER -> "Ok"

\* C12: status 0 yields success (Some of the data from get, true from del);
\* MDB_NOTFOUND yields None from get and false from del; every other
\* nonzero status, and MDB_NOTFOUND in put, commit and begin, yields Err of
\* exactly that status; the engine call is made once.
C12_StatusTranslation ==
    [][(ret.kind = "status" /\ ret' # ret)
       => LET op == ret.op
              r == ret.r
              translated == r = MDB_NOTFOUND /\ op \in {"get", "del"}
          IN  /\ ret'.op = op
              /\ ret'.calls = <<EngineCallOf(op)>>
              /\ r = 0 => ret'.kind = SuccessKind(op)
              /\ (r = 0 /\ op = "get") => ret'.v = ret.v
              /\ (translated /\ op = "get") => ret'.kind = "None"
              /\ (translated /\ op = "del") => ret'.kind = "false"
              /\ (r # 0 /\ ~translated)
                 => ret'.kind = "Err" /\ ret'.r = r]_vars

\* A put whose engine call returned MDB_NOTFOUND has returned Err of it.
C12_Witness ==
    /\ ret.op = "put"
    /\ ret.kind = "Err"
    /\ ret.r = MDB_NOTFOUND
    /\ ret.calls = <<"mdb_put">>

\* C13: on a read-only Transaction put and del return an Error and change
\* nothing, what it sees stays the committed store it began on, and its
\* commit, abort or drop leaves the committed store as it is, which is as
\* it was when the Transaction began.
C13_ReadOnlyWritesNothing ==
    /\ [](\A x \in TxnIds :
            (Alive(x) /\ txns[x].ro)
            => txns[x].work = txns[x].snap /\ ~Wrote(txns[x]))
    /\ [][\A x \in TxnIds :
            (Alive(x) /\ txns[x].ro)
            => /\ (ret' # ret /\ ret'.x = x /\ ret'.op \in {"put", "del"})
                  => /\ ret'.kind = "Err"
                     /\ txns'[x].work = txns[x].work
                     /\ disk' = disk
               /\ Ends(x, Finalizers)
                  => disk' = disk /\ disk' = txns[x].snap]_vars

\* A read-only Transaction begun on a committed store that holds data has
\* been committed, and the store holds the same data.
C13_Witness ==
    /\ ret.op = "commit"
    /\ ret.kind = "Ok"
    /\ ret.ro
    /\ \E k \in Keys : disk[k] \in Vals

\* C14: the marker of a thread is set exactly when a Transaction begun on
\* the thread is alive, and a begin that returns an Error leaves it unset.
C14_MarkerIffAlive ==
    /\ \A t \in RunThreads : ACTIVE_TXN[t] <=> LiveTxnsOf(t) # {}
    /\ (ret.op = "begin" /\ ret.kind = "Err") => ~ACTIVE_TXN[ret.t]

\* C15: when commit returns an Error, the only engine call made on the
\* Transaction's handle is the one mdb_txn_commit that failed: no retry and
\* no abort of the handle it terminated.
C15_NothingAfterFailedCommit ==
    (ret.op = "commit" /\ ret.kind = "Err")
    => /\ CallsTo("mdb_txn_commit") = 1
       /\ CallsTo("mdb_txn_abort") = 0
       /\ txns[ret.x].terms = 1

\* The last call was an open whose bootstrap transaction was begun:
\* mdb_txn_begin returned 0 and open went on to mdb_dbi_open.
BootstrapBegun == ret.op = "open" /\ CallsTo("mdb_dbi_open") = 1

\* The engine transactions of Transactions that thread t holds open.
OpenTxnsOf(t) == {x \in TxnIds : txns[x].th = t /\ txns[x].open}

\* C16: a thread never holds two open engine transactions: not those of
\* two Transactions, and not that of a Transaction together with the
\* bootstrap transaction of an open called on the thread.
C16_OneEngineTxnPerThread ==
    /\ \A t \in RunThreads : Cardinality(OpenTxnsOf(t)) <= 1
    /\ BootstrapBegun => ~ThreadTxnOpen(ret.t)

\* The engine calls that end an engine transaction.
EndingCalls == {"mdb_txn_commit", "mdb_txn_abort"}

\* C17: when open returns after its bootstrap transaction was begun, it
\* has committed or aborted that transaction, once, and before any
\* mdb_env_close of the instance.
C17_BootstrapEnded ==
    BootstrapBegun
    => /\ CallsTo("mdb_txn_commit") + CallsTo("mdb_txn_abort") = 1
       /\ \A i \in DOMAIN ret.calls :
            ret.calls[i] = "mdb_env_close"
            => \E j \in 1..(i - 1) : ret.calls[j] \in EndingCalls

\* C18: a begin panics only when the marker of its own thread is set,
\* whatever the other threads hold; a call changes no marker but that of
\* the thread that makes it, so that the end of a Transaction on one
\* thread neither clears nor sets the marker of another.
C18_MarkerPerThread ==
    [][/\ (Called("begin") /\ ret'.kind = "panic") => ACTIVE_TXN[ret'.t]
       /\ \A u \in RunThreads :
            ACTIVE_TXN'[u] # ACTIVE_TXN[u] => (ret' # ret /\ ret'.t = u)
       /\ \A x \in TxnIds, u \in RunThreads :
            (Ends(x, Finalizers) /\ u # txns[x].th)
            => ACTIVE_TXN'[u] = ACTIVE_TXN[u]]_vars

\* Two threads hold a live Transaction each, begun from the same
\* Environment, the second begun while the first was alive.
C18_Witness ==
    /\ ret.op = "begin"
    /\ ret.kind = "Ok"
    /\ \E x \in TxnIds :
         /\ x # ret.x
         /\ Alive(x)
         /\ Alive(ret.x)
         /\ txns[x].th # ret.t
         /\ txns[x].env = txns[ret.x].env
         /\ ACTIVE_TXN[txns[x].th]
         /\ ACTIVE_TXN[ret.t]

====
